---- MODULE Spec2Model ----
(***************************************************************************)
(* rayder (src/main.go): a workflow runner.  main loads a YAML workflow,   *)
(* parseArgs merges the command-line variables over the workflow defaults, *)
(* runAllTasks makes one pass over the declared tasks (dependency check,   *)
(* sequential run or goroutine dispatch behind the moduleSyncChan slot),   *)
(* waits for the goroutines and exits with the aggregated status.          *)
(*                                                                         *)
(* The main goroutine is the process "pc"; every dispatched parallel task  *)
(* is a goroutine g[i], i the task's position in the declaration order.    *)
(* The task list is an input: the pass draws the next declared task when   *)
(* the range loop reaches it and keeps, in hist, what later states need of *)
(* the tasks already reached.  A map operation on taskCompleted takes two  *)
(* steps (enter, leave), so that operations of two goroutines can overlap  *)
(* as they do in the program; the Go runtime may abort the process         *)
(* ("fatal error: concurrent map ...", exit status 2) when they do.        *)
(***************************************************************************)
EXTENDS Integers, Sequences, FiniteSets, TLC

\* ---------------------------------------------------------------- bounds
MaxTasks == 2    \* tasks declared in a workflow
MaxCmds == 2     \* commands of a task
MaxReq == 2      \* names in a task's required list

\* ------------------------------------------------------- program constants
Capacity == 1    \* make(chan struct{}, 1)

\* Task names.  Names are interchangeable, so workflows are drawn up to a
\* renaming: a task bears a name declared before it or the first unused one.
NameOrder == <<"A", "B", "C">>

Names == {NameOrder[i] : i \in 1..Len(NameOrder)}

NotExited == -1

VARIABLES
    taskFile,        \* -w flag: "" when no path was given
    fileState,       \* what reading and parsing taskFile gives
    fileVars,        \* the vars section of the workflow file
    args,            \* flag.Args()
    defaultVars,     \* main: config.Vars of the first read (nil: empty)
    variables,       \* main: the variable environment parseArgs returns
    pc,              \* main goroutine: the statement it is at
    exitStatus,      \* process exit status, NotExited while it runs
    task,            \* runAllTasks: the range loop's task (NoTask between
                     \* two iterations, where its value is dead)
    ri,              \* runAllTasks: index of req in task.Required
    frame,           \* runTask called inline: the commands executed so far
    hist,            \* per task reached so far: name, parallel, status
    taskCompleted,   \* runAllTasks: map[string]bool
    mapBusy,         \* goroutines inside a taskCompleted map operation
    g,               \* the goroutines started at line 176, by task position
    moduleSyncChan,  \* number of items buffered in the channel
    wg,              \* sync.WaitGroup counter
    errorOccurred,   \* runAllTasks
    cmdStr,          \* replacePlaceholders: input
    origCmd,         \* the command string as declared
    todo,            \* replacePlaceholders: keys the range has not visited
    spc              \* executeCommand: "idle", "replace", "exec"

vars == <<taskFile, fileState, fileVars, args, defaultVars, variables, pc, exitStatus,
          task, ri, frame, hist, taskCompleted, mapBusy, g, moduleSyncChan,
          wg, errorOccurred, cmdStr, origCmd, todo, spc>>

envVars == <<taskFile, fileState, fileVars, args>>
substVars == <<cmdStr, origCmd, todo, spc>>
passVars == <<task, ri, frame, hist, taskCompleted, mapBusy, g,
              moduleSyncChan, wg, errorOccurred>>

\* ------------------------------------------------------------------ data
Range(s) == {s[i] : i \in 1..Len(s)}

\* type Task: Cmds is the list of its commands, here their positions
Cmds(n) == [j \in 1..n |-> j]

\* type Task: Required, a list that names a task at most once
ReqSeqs ==
    {r \in UNION {[1..n -> Names] : n \in 0..MaxReq} :
        \A i, j \in DOMAIN r : r[i] = r[j] => i = j}

TaskNames(declared) ==
    declared \cup {NameOrder[i] : i \in {Cardinality(declared) + 1} \cap DOMAIN NameOrder}

TaskSet(declared) ==
    [name : TaskNames(declared), parallel : BOOLEAN, required : ReqSeqs,
     cmds : {Cmds(n) : n \in 0..MaxCmds}]

NoTask == [name |-> "", parallel |-> FALSE, required |-> <<>>, cmds |-> <<>>]

NoGoroutine == [pc |-> "none", name |-> "", cmds |-> <<>>, log |-> <<>>]

Main == 0    \* the main goroutine, in mapBusy

\* ---------------------------------------------------------------- strings
\* A string is the sequence of its characters.
usage == <<"u", "s", "a", "g", "e">>
USAGE == <<"U", "S", "A", "G", "E">>

EmptyMap == [k \in {} |-> <<>>]

Put(m, k, v) == [x \in (DOMAIN m) \cup {k} |-> IF x = k THEN v ELSE m[x]]

\* strings.Index(s, c) for a one-character c, 0 when c is not in s
Index(s, c) ==
    IF \E i \in 1..Len(s) : s[i] = c
    THEN CHOOSE i \in 1..Len(s) : s[i] = c /\ \A j \in 1..(i - 1) : s[j] # c
    ELSE 0

\* strings.SplitN(arg, "=", 2)
SplitN2(arg) ==
    LET i == Index(arg, "=")
    IN  IF i = 0 THEN <<arg>>
        ELSE <<SubSeq(arg, 1, i - 1), SubSeq(arg, i + 1, Len(arg))>>

\* parseArgs, lines 106-119: the loop stops at the first "usage" argument
UsageRequested(as) == \E i \in 1..Len(as) : as[i] \in {usage, USAGE}

RECURSIVE ArgVars(_, _)
ArgVars(as, m) ==
    IF as = <<>> \/ Head(as) \in {usage, USAGE} THEN m
    ELSE LET parts == SplitN2(Head(as))
         IN  ArgVars(Tail(as),
                     IF Len(parts) = 2 THEN Put(m, parts[1], parts[2]) ELSE m)

\* parseArgs, lines 137-141: a default is applied only to a key without a value
ApplyDefaults(m, dv) ==
    [k \in (DOMAIN m) \cup (DOMAIN dv) |-> IF k \in DOMAIN m THEN m[k] ELSE dv[k]]

ParseArgsVars(as, dv) == ApplyDefaults(ArgVars(as, EmptyMap), dv)

\* ------------------------------------------------------------------ main
Running_AbortOnError == exitStatus = NotExited /\ ~errorOccurred

\* the process runs until os.Exit, log.Fatalf, the return of main or a crash
Running == exitStatus = NotExited

\* lines 72, 89: err of ioutil.ReadFile
ReadError(fs) == fs = "unreadable"

YamlError_Ignored(fs) == FALSE

\* lines 75, 95: err of yaml.Unmarshal
YamlError(fs) == fs = "badYaml"

\* lines 71-79: the first read of the workflow file, errors ignored
ReadDefaults ==
    /\ Running /\ pc = "main"
    /\ defaultVars' = IF ReadError(fileState) \/ YamlError(fileState)
                      THEN EmptyMap ELSE fileVars
    /\ pc' = "parseArgs"
    /\ UNCHANGED <<envVars, variables, exitStatus, passVars, substVars>>

\* line 81 and parseArgs: os.Exit(0) after the usage text, else the merge
ParseArgs ==
    /\ Running /\ pc = "parseArgs"
    /\ IF UsageRequested(args)
       THEN pc' = "exit" /\ exitStatus' = 0 /\ UNCHANGED variables
       ELSE /\ variables' = ParseArgsVars(args, defaultVars)
            /\ pc' = "checkPath"
            /\ UNCHANGED exitStatus
    /\ UNCHANGED <<envVars, defaultVars, passVars, substVars>>

\* lines 83-86: no -w path: the usage line and a normal return
CheckPath ==
    /\ Running /\ pc = "checkPath"
    /\ IF taskFile = ""
       THEN pc' = "exit" /\ exitStatus' = 0
       ELSE pc' = "readFile" /\ UNCHANGED exitStatus
    /\ UNCHANGED <<envVars, defaultVars, variables, passVars, substVars>>

\* lines 88-91: log.Fatalf exits with status 1
ReadFile ==
    /\ Running /\ pc = "readFile"
    /\ IF ReadError(fileState)
       THEN pc' = "exit" /\ exitStatus' = 1
       ELSE pc' = "unmarshal" /\ UNCHANGED exitStatus
    /\ UNCHANGED <<envVars, defaultVars, variables, passVars, substVars>>

\* lines 93-99 and 147-152: on success runAllTasks starts its pass
Unmarshal ==
    /\ Running /\ pc = "unmarshal"
    /\ IF YamlError(fileState)
       THEN pc' = "exit" /\ exitStatus' = 1
       ELSE pc' = "loop" /\ UNCHANGED exitStatus
    /\ UNCHANGED <<envVars, defaultVars, variables, passVars, substVars>>

\* ----------------------------------------------------------- runAllTasks
Declared == {hist[j].name : j \in 1..Len(hist)}

SetStatus(h, i, st) == [h EXCEPT ![i].status = st]

ReqCompleted_Inverted(tc, req) == ~tc[req]

ReqCompleted_Always(tc, req) == TRUE

\* line 159: taskCompleted[req], false for a missing key
ReqCompleted(tc, req) == tc[req]

MarkCompleted_Replace(tc, name, err) == [n \in DOMAIN tc |-> n = name]

MarkCompleted_IfSucceeded(tc, name, err) ==
    IF err THEN tc ELSE [tc EXCEPT ![name] = TRUE]

\* lines 189, 198: taskCompleted[name] = true, whatever err of runTask was
MarkCompleted(tc, name, err) == [tc EXCEPT ![name] = TRUE]

CanSend_Unbounded(ch) == TRUE

\* an unbuffered channel: no receiver is ever waiting when the pass sends
CanSend_Unbuffered(ch) == FALSE

\* line 174: a send on the buffered channel blocks while the buffer is full
CanSend(ch) == ch < Capacity

Receive_Missing(ch) == ch

\* line 178: <-moduleSyncChan takes one item out of the buffer
Receive(ch) == ch - 1

WaitDone_NoWait(w) == TRUE

\* line 202: wg.Wait() returns when the counter is zero
WaitDone(w) == w = 0

\* lines 204-209: os.Exit(1) after an error, else the normal return
ExitCode(err) == IF err THEN 1 ELSE 0

\* runTask, lines 218-224: the range over cmds, left at the first error
HasError(log) == Len(log) > 0 /\ ~log[Len(log)].ok

LoopDone_NoBreak(log, cmds) == Len(log) = Len(cmds)

LoopDone(log, cmds) == HasError(log) \/ Len(log) = Len(cmds)

\* executeCommand: the child's exit status decides err
Executed(log, cmds, ok) == Append(log, [cmd |-> cmds[Len(log) + 1], ok |-> ok])

TaskStatus_NeverEnds(log) == "Running"

\* runTask, lines 226-231
TaskStatus(log) == IF HasError(log) THEN "Failure" ELSE "Success"

AfterSkip_NoContinue(t) == [pc |-> "dispatch", task |-> t]

\* lines 165-169: the skip message, then continue: the task is left for good
AfterSkip(t) == [pc |-> "loop", task |-> NoTask]

\* line 154: the range loop takes the next declared task, one of ts; line 155
TakeTask(ts, max) ==
    /\ Running /\ pc = "loop" /\ Len(hist) < max
    /\ \E t \in ts :
        /\ task' = t
        /\ hist' = Append(hist, [name |-> t.name, parallel |-> t.parallel,
                                 status |-> "Pending",
                                 orphan |-> ~(Range(t.required) \subseteq Declared)])
        /\ pc' = IF Len(t.required) > 0 THEN "check" ELSE "dispatch"
    /\ ri' = 1
    /\ UNCHANGED <<envVars, defaultVars, variables, exitStatus, frame,
                   taskCompleted, mapBusy, g, moduleSyncChan, wg, errorOccurred,
                   substVars>>

NextTask == TakeTask(TaskSet(Declared), MaxTasks)

\* line 154: the range is exhausted
EndLoop ==
    /\ Running /\ pc = "loop"
    /\ pc' = "wait"
    /\ UNCHANGED <<envVars, defaultVars, variables, exitStatus, passVars, substVars>>

\* line 159: the map read begins
CheckBegin ==
    /\ Running /\ pc = "check"
    /\ mapBusy' = mapBusy \cup {Main}
    /\ pc' = "checking"
    /\ UNCHANGED <<envVars, defaultVars, variables, exitStatus, task, ri, frame,
                   hist, taskCompleted, g, moduleSyncChan, wg, errorOccurred,
                   substVars>>

\* lines 158-169: the read returns; next req, or the task may run, or the skip
CheckEnd ==
    /\ Running /\ pc = "checking"
    /\ mapBusy' = mapBusy \ {Main}
    /\ IF ReqCompleted(taskCompleted, task.required[ri])
       THEN /\ IF ri < Len(task.required)
               THEN ri' = ri + 1 /\ pc' = "check"
               ELSE ri' = 1 /\ pc' = "dispatch"
            /\ UNCHANGED <<hist, task>>
       ELSE /\ hist' = SetStatus(hist, Len(hist), "Skipped")
            /\ pc' = AfterSkip(task).pc
            /\ ri' = 1
            /\ task' = AfterSkip(task).task
    /\ UNCHANGED <<envVars, defaultVars, variables, exitStatus, frame,
                   taskCompleted, g, moduleSyncChan, wg, errorOccurred, substVars>>

\* lines 172-174: the slot is taken before the goroutine starts
Acquire ==
    /\ Running /\ pc = "dispatch" /\ task.parallel
    /\ CanSend(moduleSyncChan)
    /\ moduleSyncChan' = moduleSyncChan + 1
    /\ pc' = "spawn"
    /\ UNCHANGED <<envVars, defaultVars, variables, exitStatus, task, ri, frame,
                   hist, taskCompleted, mapBusy, g, wg, errorOccurred, substVars>>

\* lines 175-176, 190: wg.Add(1) and the go statement; the pass goes on
Spawn ==
    /\ Running /\ pc = "spawn"
    /\ wg' = wg + 1
    /\ g' = [g EXCEPT ![Len(hist)] = [pc |-> "runTask", name |-> task.name,
                                      cmds |-> task.cmds, log |-> <<>>]]
    /\ hist' = SetStatus(hist, Len(hist), "Running")
    /\ task' = NoTask
    /\ pc' = "loop"
    /\ UNCHANGED <<envVars, defaultVars, variables, exitStatus, ri, frame,
                   taskCompleted, mapBusy, moduleSyncChan, errorOccurred, substVars>>

\* line 192: runTask is called inline
SeqStart ==
    /\ Running /\ pc = "dispatch" /\ ~task.parallel
    /\ hist' = SetStatus(hist, Len(hist), "Running")
    /\ frame' = <<>>
    /\ pc' = "runTask"
    /\ UNCHANGED <<envVars, defaultVars, variables, exitStatus, task, ri,
                   taskCompleted, mapBusy, g, moduleSyncChan, wg, errorOccurred,
                   substVars>>

\* lines 218-224: one command of the inline task
SeqExec ==
    /\ Running /\ pc = "runTask" /\ ~LoopDone(frame, task.cmds)
    /\ \E ok \in BOOLEAN : frame' = Executed(frame, task.cmds, ok)
    /\ UNCHANGED <<envVars, defaultVars, variables, pc, exitStatus, task, ri,
                   hist, taskCompleted, mapBusy, g, moduleSyncChan, wg,
                   errorOccurred, substVars>>

\* lines 226-231 and 193-196: runTask returns, the error is recorded
SeqReturn ==
    /\ Running /\ pc = "runTask" /\ LoopDone(frame, task.cmds)
    /\ hist' = SetStatus(hist, Len(hist), TaskStatus(frame))
    /\ errorOccurred' = (errorOccurred \/ HasError(frame))
    /\ pc' = "mark"
    /\ UNCHANGED <<envVars, defaultVars, variables, exitStatus, task, ri, frame,
                   taskCompleted, mapBusy, g, moduleSyncChan, wg, substVars>>

\* line 198: the map write begins
SeqMarkBegin ==
    /\ Running /\ pc = "mark"
    /\ mapBusy' = mapBusy \cup {Main}
    /\ pc' = "marking"
    /\ UNCHANGED <<envVars, defaultVars, variables, exitStatus, task, ri, frame,
                   hist, taskCompleted, g, moduleSyncChan, wg, errorOccurred,
                   substVars>>

\* line 198: the map write is done
SeqMarkEnd ==
    /\ Running /\ pc = "marking"
    /\ taskCompleted' = MarkCompleted(taskCompleted, task.name, HasError(frame))
    /\ mapBusy' = mapBusy \ {Main}
    /\ frame' = <<>>
    /\ task' = NoTask
    /\ pc' = "loop"
    /\ UNCHANGED <<envVars, defaultVars, variables, exitStatus, ri, hist, g,
                   moduleSyncChan, wg, errorOccurred, substVars>>

\* line 202
Wait ==
    /\ Running /\ pc = "wait"
    /\ WaitDone(wg)
    /\ pc' = "aggregate"
    /\ UNCHANGED <<envVars, defaultVars, variables, exitStatus, passVars, substVars>>

\* lines 204-210: the summary line and the exit status
Aggregate ==
    /\ Running /\ pc = "aggregate"
    /\ exitStatus' = ExitCode(errorOccurred)
    /\ pc' = "exit"
    /\ UNCHANGED <<envVars, defaultVars, variables, passVars, substVars>>

\* ------------------------------------------------- the goroutine of line 176
Positions == 1..MaxTasks

\* line 181, runTask lines 218-224: one command
GExec(i) ==
    /\ Running /\ g[i].pc = "runTask" /\ ~LoopDone(g[i].log, g[i].cmds)
    /\ \E ok \in BOOLEAN :
        g' = [g EXCEPT ![i].log = Executed(g[i].log, g[i].cmds, ok)]
    /\ UNCHANGED <<envVars, defaultVars, variables, pc, exitStatus, task, ri,
                   frame, hist, taskCompleted, mapBusy, moduleSyncChan, wg,
                   errorOccurred, substVars>>

\* lines 226-231, 181-182: runTask returns
GReturn(i) ==
    /\ Running /\ g[i].pc = "runTask" /\ LoopDone(g[i].log, g[i].cmds)
    /\ hist' = SetStatus(hist, i, TaskStatus(g[i].log))
    /\ g' = [g EXCEPT ![i].pc = IF HasError(g[i].log) THEN "lock" ELSE "mark"]
    /\ UNCHANGED <<envVars, defaultVars, variables, pc, exitStatus, task, ri,
                   frame, taskCompleted, mapBusy, moduleSyncChan, wg,
                   errorOccurred, substVars>>

\* lines 183-186: errorOccurred is set under errorMutex, held for this step
\* only.  Line 194 sets the flag without the mutex; both writes store true and
\* the flag is read after wg.Wait() alone, so their order changes nothing.
GSetError(i) ==
    /\ Running /\ g[i].pc = "lock"
    /\ errorOccurred' = TRUE
    /\ g' = [g EXCEPT ![i].pc = "mark"]
    /\ UNCHANGED <<envVars, defaultVars, variables, pc, exitStatus, task, ri,
                   frame, hist, taskCompleted, mapBusy, moduleSyncChan, wg,
                   substVars>>

\* line 189: the map write begins
GMarkBegin(i) ==
    /\ Running /\ g[i].pc = "mark"
    /\ mapBusy' = mapBusy \cup {i}
    /\ g' = [g EXCEPT ![i].pc = "marking"]
    /\ UNCHANGED <<envVars, defaultVars, variables, pc, exitStatus, task, ri,
                   frame, hist, taskCompleted, moduleSyncChan, wg, errorOccurred,
                   substVars>>

\* line 189: the map write is done
GMarkEnd(i) ==
    /\ Running /\ g[i].pc = "marking"
    /\ taskCompleted' = MarkCompleted(taskCompleted, g[i].name, HasError(g[i].log))
    /\ mapBusy' = mapBusy \ {i}
    /\ g' = [g EXCEPT ![i].pc = "release", ![i].log = <<>>, ![i].cmds = <<>>]
    /\ UNCHANGED <<envVars, defaultVars, variables, pc, exitStatus, task, ri,
                   frame, hist, moduleSyncChan, wg, errorOccurred, substVars>>

\* line 178, deferred: the slot is given back
GRelease(i) ==
    /\ Running /\ g[i].pc = "release"
    /\ moduleSyncChan > 0
    /\ moduleSyncChan' = Receive(moduleSyncChan)
    /\ g' = [g EXCEPT ![i].pc = "wgDone"]
    /\ UNCHANGED <<envVars, defaultVars, variables, pc, exitStatus, task, ri,
                   frame, hist, taskCompleted, mapBusy, wg, errorOccurred,
                   substVars>>

\* line 179, deferred: wg.Done(), the goroutine ends
GDone(i) ==
    /\ Running /\ g[i].pc = "wgDone"
    /\ wg' = wg - 1
    /\ g' = [g EXCEPT ![i] = NoGoroutine]
    /\ UNCHANGED <<envVars, defaultVars, variables, pc, exitStatus, task, ri,
                   frame, hist, taskCompleted, mapBusy, moduleSyncChan,
                   errorOccurred, substVars>>

\* Two goroutines are inside an operation on the unguarded map, one of them
\* writing (only the main goroutine ever reads): the runtime's check may see
\* it and abort the process with "fatal error: concurrent map ..." (status 2).
MapRace == Cardinality(mapBusy) > 1

Fatal ==
    /\ Running /\ MapRace
    /\ exitStatus' = 2
    /\ pc' = "exit"
    /\ UNCHANGED <<envVars, defaultVars, variables, passVars, substVars>>

\* ------------------------------------------------------- the specification
Init ==
    /\ taskFile \in {"", "workflow.yaml"}
    /\ fileState \in {"ok", "unreadable", "badYaml"}
    /\ taskFile = "" => fileState = "unreadable"
    /\ fileVars = EmptyMap
    /\ args \in {<<>>, <<usage>>}
    /\ defaultVars = EmptyMap
    /\ variables = EmptyMap
    /\ pc = "main"
    /\ exitStatus = NotExited
    /\ task = NoTask
    /\ ri = 1
    /\ frame = <<>>
    /\ hist = <<>>
    /\ taskCompleted = [n \in Names |-> FALSE]
    /\ mapBusy = {}
    /\ g = [i \in Positions |-> NoGoroutine]
    /\ moduleSyncChan = 0
    /\ wg = 0
    /\ errorOccurred = FALSE
    /\ cmdStr = <<>>
    /\ origCmd = <<>>
    /\ todo = {}
    /\ spc = "idle"

Next ==
    \/ ReadDefaults \/ ParseArgs \/ CheckPath \/ ReadFile \/ Unmarshal
    \/ NextTask \/ EndLoop \/ CheckBegin \/ CheckEnd
    \/ Acquire \/ Spawn \/ SeqStart \/ SeqExec \/ SeqReturn
    \/ SeqMarkBegin \/ SeqMarkEnd \/ Wait \/ Aggregate
    \/ \E i \in Positions :
        \/ GExec(i) \/ GReturn(i) \/ GSetError(i)
        \/ GMarkBegin(i) \/ GMarkEnd(i) \/ GRelease(i) \/ GDone(i)
    \/ Fatal

Spec == Init /\ [][Next]_vars

\* Fair scheduling: the Go scheduler runs every runnable goroutine, and every
\* command a task executes terminates.  A step of the main goroutine, or of
\* the goroutine of a parallel task, that stays possible is taken.  Nothing
\* forces the runtime to notice a race: Fatal may happen, it need not.
MainStep ==
    \/ ReadDefaults \/ ParseArgs \/ CheckPath \/ ReadFile \/ Unmarshal
    \/ NextTask \/ EndLoop \/ CheckBegin \/ CheckEnd
    \/ Acquire \/ Spawn \/ SeqStart \/ SeqExec \/ SeqReturn
    \/ SeqMarkBegin \/ SeqMarkEnd \/ Wait \/ Aggregate

GStep(i) ==
    \/ GExec(i) \/ GReturn(i) \/ GSetError(i)
    \/ GMarkBegin(i) \/ GMarkEnd(i) \/ GRelease(i) \/ GDone(i)

SpecFair == Init /\ [][Next]_vars /\ WF_vars(MainStep) /\ \A i \in Positions : WF_vars(GStep(i))

\* ------------------------------------------- executeCommand, placeholders
MaxArgs == 2     \* command-line arguments after the flags
MaxParts == 2    \* pieces a command string is made of

\* line 255: fmt.Sprintf("{{%s}}", key)
Placeholder(key) == <<"{", "{">> \o key \o <<"}", "}">>

\* strings.ReplaceAll(s, old, new) for a non-empty old: the non-overlapping
\* instances of old, found from the left
RECURSIVE ReplaceAll(_, _, _)
ReplaceAll(s, old, new) ==
    IF Len(s) < Len(old) THEN s
    ELSE IF SubSeq(s, 1, Len(old)) = old
         THEN new \o ReplaceAll(SubSeq(s, Len(old) + 1, Len(s)), old, new)
         ELSE <<Head(s)>> \o ReplaceAll(Tail(s), old, new)

\* the inputs of the substitution: variable names, values, arguments, commands
SubstKeys == {<<"X">>, <<"Y">>}

SubstValues == {<<"1">>, <<"2">>, Placeholder(<<"Y">>)}

SubstMaps == UNION {[ks -> SubstValues] : ks \in SUBSET SubstKeys}

SubstArgs ==
    {k \o <<"=">> \o v : k \in SubstKeys, v \in SubstValues} \cup {usage, <<"X">>}

ArgLists == UNION {[1..n -> SubstArgs] : n \in 0..MaxArgs}

RECURSIVE Concat(_)
Concat(ss) == IF ss = <<>> THEN <<>> ELSE Head(ss) \o Concat(Tail(ss))

CmdParts == {Placeholder(<<"X">>), Placeholder(<<"Y">>), Placeholder(<<"Z">>), <<"a">>}

CmdStrings == {Concat(ps) : ps \in UNION {[1..n -> CmdParts] : n \in 0..MaxParts}}

\* line 235: executeCommand calls replacePlaceholders(cmdStr, vars)
ExecuteCommand ==
    /\ Running /\ pc = "loop" /\ spc = "idle"
    /\ \E c \in CmdStrings : cmdStr' = c /\ origCmd' = c
    /\ todo' = DOMAIN variables
    /\ spc' = "replace"
    /\ UNCHANGED <<envVars, defaultVars, variables, pc, exitStatus, passVars>>

\* lines 254-257: the range over the map visits the keys in any order
VisitKey ==
    /\ Running /\ spc = "replace"
    /\ \E key \in todo :
        /\ cmdStr' = ReplaceAll(cmdStr, Placeholder(key), variables[key])
        /\ todo' = todo \ {key}
    /\ UNCHANGED <<envVars, defaultVars, variables, pc, exitStatus, passVars,
                   origCmd, spc>>

\* line 258, lines 236-246: the rendered string is handed to sh -c
ReplaceReturn ==
    /\ Running /\ spc = "replace" /\ todo = {}
    /\ spc' = "exec"
    /\ UNCHANGED <<envVars, defaultVars, variables, pc, exitStatus, passVars,
                   cmdStr, origCmd, todo>>

InitSubst ==
    /\ taskFile = "workflow.yaml"
    /\ fileState \in {"ok", "unreadable"}
    /\ fileVars \in SubstMaps
    /\ args \in ArgLists
    /\ defaultVars = EmptyMap
    /\ variables = EmptyMap
    /\ pc = "main"
    /\ exitStatus = NotExited
    /\ task = NoTask
    /\ ri = 1
    /\ frame = <<>>
    /\ hist = <<>>
    /\ taskCompleted = [n \in Names |-> FALSE]
    /\ mapBusy = {}
    /\ g = [i \in Positions |-> NoGoroutine]
    /\ moduleSyncChan = 0
    /\ wg = 0
    /\ errorOccurred = FALSE
    /\ cmdStr = <<>>
    /\ origCmd = <<>>
    /\ todo = {}
    /\ spc = "idle"

NextSubst ==
    \/ ReadDefaults \/ ParseArgs \/ CheckPath \/ ReadFile \/ Unmarshal
    \/ ExecuteCommand \/ VisitKey \/ ReplaceReturn

SpecSubst == InitSubst /\ [][NextSubst]_vars

\* ------------------------------------------------------ the chain workflow
\* The workflow A, B requiring A, C requiring B, all sequential, declared in
\* this order (or a prefix of it); the commands and their exit statuses are
\* free.
ChainTasks(h) ==
    [name : {NameOrder[i] : i \in {Len(h) + 1} \cap DOMAIN NameOrder},
     parallel : {FALSE},
     required : {IF h = <<>> THEN <<>> ELSE <<h[Len(h)].name>>},
     cmds : {Cmds(n) : n \in 1..MaxCmds}]

NextChainTask == TakeTask(ChainTasks(hist), Len(NameOrder))

NextChain ==
    \/ ReadDefaults \/ ParseArgs \/ CheckPath \/ ReadFile \/ Unmarshal
    \/ NextChainTask \/ EndLoop \/ CheckBegin \/ CheckEnd
    \/ SeqStart \/ SeqExec \/ SeqReturn \/ SeqMarkBegin \/ SeqMarkEnd
    \/ Wait \/ Aggregate

SpecChain == Init /\ [][NextChain]_vars

\* ------------------------------------------------------ the cycle workflow
\* The workflow A requiring B, B requiring A, then C requiring nothing,
\* declared in this order (or a prefix of it).  A and B are sequential or
\* parallel, C is sequential; the commands and their exit statuses are free.
\* (B requiring A declared before A requiring B is this workflow with the two
\* names exchanged.)
CycleTasks(h) ==
    [name : {NameOrder[i] : i \in {Len(h) + 1} \cap DOMAIN NameOrder},
     parallel : IF Len(h) < 2 THEN BOOLEAN ELSE {FALSE},
     required : {IF Len(h) = 0 THEN <<"B">> ELSE IF Len(h) = 1 THEN <<"A">> ELSE <<>>},
     cmds : {Cmds(n) : n \in 1..MaxCmds}]

NextCycleTask == TakeTask(CycleTasks(hist), Len(NameOrder))

NextCycle ==
    \/ ReadDefaults \/ ParseArgs \/ CheckPath \/ ReadFile \/ Unmarshal
    \/ NextCycleTask \/ EndLoop \/ CheckBegin \/ CheckEnd
    \/ SeqStart \/ SeqExec \/ SeqReturn \/ SeqMarkBegin \/ SeqMarkEnd
    \/ Wait \/ Aggregate

SpecCycle == Init /\ [][NextCycle]_vars

\* ================================================================ claims
Completed == {"Success", "Failure"}

\* the workflow was loaded and the pass of runAllTasks was entered
Loaded == taskFile # "" /\ fileState = "ok" /\ ~UsageRequested(args)

AnyFailed == \E i \in 1..Len(hist) : hist[i].status = "Failure"

AllRequired(t, tc) == \A r \in Range(t.required) : tc[r]

\* C1: when the pass reaches a task, the task goes on to be run iff every
\* name of its Required list is true in taskCompleted at the moment the check
\* decides, and is skipped otherwise; a task with an empty Required list goes
\* on to be run whatever taskCompleted holds.
C1_DependencyGate ==
    [][/\ (pc = "loop" /\ pc' \in {"check", "dispatch"})
          => (pc' = "dispatch" <=> task'.required = <<>>)
       /\ (pc = "checking" /\ pc' \in {"dispatch", "loop"})
          => /\ pc' = "dispatch" <=> AllRequired(task, taskCompleted)
             /\ pc' = "loop" <=> hist'[Len(hist)].status = "Skipped"
             /\ pc' = "dispatch" => hist'[Len(hist)].status = "Pending"]_vars

C1_Witness ==
    /\ pc = "dispatch" /\ task.required # <<>>
    /\ AllRequired(task, taskCompleted)
    /\ \E n \in Names : ~taskCompleted[n]

\* C2: a run of runAllTasks ends with status 0 iff no task reached
\* Completed-Failure, and with status 1 if one did.
C2_ExitStatus ==
    (Loaded /\ pc = "exit")
        => /\ exitStatus = 0 <=> ~AnyFailed
           /\ AnyFailed => exitStatus = 1

\* C3 (on the chain workflow): a task that ended, failed or not, is marked
\* completed; when A succeeded and B failed, the failure is recorded, C is
\* not skipped but run, and the run ends with status 1.
C3_FailedStillCompletes ==
    /\ \A i \in 1..Len(hist) :
          (hist[i].status \in Completed
           /\ (i < Len(hist) \/ pc \notin {"mark", "marking"}))
              => taskCompleted[hist[i].name]
    /\ (Len(hist) >= 2 /\ hist[1].status = "Success" /\ hist[2].status = "Failure")
          => /\ hist[1].name = "A" /\ hist[2].name = "B"
             /\ errorOccurred
             /\ Len(hist) = 3
                   => /\ hist[3].name = "C" /\ hist[3].status # "Skipped"
                      /\ task # NoTask => task.required = <<"B">>
                      /\ pc \in {"loop", "wait", "aggregate", "exit"}
                            => hist[3].status \in Completed
             /\ pc = "exit" => exitStatus = 1

C3_Witness ==
    /\ pc = "exit" /\ exitStatus = 1 /\ Len(hist) = 3
    /\ hist[1].status = "Success" /\ hist[2].status = "Failure"
    /\ hist[3].status = "Success"
    /\ taskCompleted["A"] /\ taskCompleted["B"] /\ taskCompleted["C"]

\* C4: runTask is fail-fast.  The commands executed so far are c1..ck in
\* order, each once, and only the last of them may have failed; when runTask
\* has returned, the task is reported failed iff that last command failed,
\* and a task that succeeded has executed all its commands.
FrameOK(log, cmds) ==
    /\ Len(log) <= Len(cmds)
    /\ \A j \in 1..Len(log) : log[j].cmd = cmds[j] /\ (j < Len(log) => log[j].ok)

Returned(log, cmds, status) ==
    /\ status = "Failure" <=> (Len(log) > 0 /\ ~log[Len(log)].ok)
    /\ status = "Success" <=> (Len(log) = Len(cmds) /\ \A j \in 1..Len(log) : log[j].ok)

C4_FailFast ==
    /\ pc \in {"runTask", "mark", "marking"} => FrameOK(frame, task.cmds)
    /\ pc \in {"mark", "marking"}
          => Returned(frame, task.cmds, hist[Len(hist)].status)
    /\ \A i \in Positions :
          /\ g[i].pc \in {"runTask", "lock", "mark", "marking"}
                => FrameOK(g[i].log, g[i].cmds)
          /\ g[i].pc \in {"lock", "mark", "marking"}
                => Returned(g[i].log, g[i].cmds, hist[i].status)

C4_Witness ==
    /\ pc = "mark" /\ Len(task.cmds) = MaxCmds
    /\ Len(frame) = 1 /\ ~frame[1].ok
    /\ hist[Len(hist)].status = "Failure"

\* C5: with the one-slot channel, at most one parallel task is inside its
\* command sequence (between the start of its goroutine and the return of
\* its runTask) in any state.
Executing == {i \in Positions : g[i].pc = "runTask"}

C5_OneAtATime == Cardinality(Executing) <= 1

C5_Witness ==
    /\ Len(hist) = 2 /\ hist[1].parallel /\ hist[2].parallel
    /\ hist[1].status \in Completed
    /\ g[2].pc = "runTask" /\ Len(g[2].log) > 0

\* C6 as stated: a task whose Required list names a task not declared before
\* it never runs, and the taskCompleted entry of its own name is never true.
C6_Original ==
    \A i \in 1..Len(hist) :
        hist[i].orphan
            => /\ hist[i].status \in {"Pending", "Skipped"}
               /\ ~taskCompleted[hist[i].name]

\* C6, amended: a task whose Required list names a task not declared before
\* it never runs and is skipped as soon as its check is over; the entry of
\* its name in taskCompleted is true only when another declared task bears
\* the same name and has completed.
C6_OrphanSkipped ==
    \A i \in 1..Len(hist) :
        hist[i].orphan
            => /\ hist[i].status \in {"Pending", "Skipped"}
               /\ (i < Len(hist) \/ pc \in {"loop", "wait", "aggregate"})
                     => hist[i].status = "Skipped"
               /\ taskCompleted[hist[i].name]
                     => \E j \in 1..Len(hist) :
                            /\ j # i /\ hist[j].name = hist[i].name
                            /\ hist[j].status \in Completed

C6_Witness ==
    /\ pc = "exit" /\ exitStatus = 0
    /\ \E i \in 1..Len(hist) :
          /\ hist[i].orphan /\ hist[i].status = "Skipped"
          /\ ~taskCompleted[hist[i].name]

\* C7: no two operations on taskCompleted, one of them a write, are in
\* progress at once.
C7_MutualExclusion == ~MapRace

\* C8: what the claim says the rendering is.  The override of a name is the
\* value of the last argument name=value, its default the value in the
\* workflow file as main read it; each {{name}} of the command, found from the
\* left, becomes the override if there is one, else the default, and is left
\* as it is when the name has neither.
Overrides(as) ==
    {i \in 1..Len(as) : Len(SplitN2(as[i])) = 2}

HasOverride(as, k) == \E i \in Overrides(as) : SplitN2(as[i])[1] = k

OverrideOf(as, k) ==
    LET last == CHOOSE i \in Overrides(as) :
                    /\ SplitN2(as[i])[1] = k
                    /\ \A j \in Overrides(as) : SplitN2(as[j])[1] = k => j <= i
    IN  SplitN2(as[last])[2]

ClaimedEnv(as, dv) ==
    [k \in {x \in SubstKeys : HasOverride(as, x)} \cup DOMAIN dv |->
        IF HasOverride(as, k) THEN OverrideOf(as, k) ELSE dv[k]]

RECURSIVE Rendering(_, _)
Rendering(s, env) ==
    IF s = <<>> THEN <<>>
    ELSE LET hit == {k \in DOMAIN env :
                        /\ Len(s) >= Len(Placeholder(k))
                        /\ SubSeq(s, 1, Len(Placeholder(k))) = Placeholder(k)}
         IN  IF hit = {} THEN <<Head(s)>> \o Rendering(Tail(s), env)
             ELSE LET k == CHOOSE x \in hit : TRUE
                  IN  env[k] \o Rendering(SubSeq(s, Len(Placeholder(k)) + 1, Len(s)), env)

\* C8: the environment parseArgs builds gives each name its override, else
\* its default; the string handed to the shell is the command with each
\* {{name}} rendered by that environment.
C8_Rendering ==
    /\ pc \notin {"main", "parseArgs", "exit"} => variables = ClaimedEnv(args, defaultVars)
    /\ spc = "exec" => cmdStr = Rendering(origCmd, ClaimedEnv(args, defaultVars))

\* C9 as stated: when the workflow cannot be loaded, no task is reached and
\* the process ends with a non-zero status.
CannotLoad == taskFile = "" \/ fileState # "ok"

NoTaskDispatched ==
    /\ hist = <<>> /\ task = NoTask
    /\ \A i \in Positions : g[i] = NoGoroutine
    /\ pc \in {"main", "parseArgs", "checkPath", "readFile", "unmarshal", "exit"}

C9_Original ==
    CannotLoad => (NoTaskDispatched /\ (pc = "exit" => exitStatus # 0))

\* C9, amended: when the workflow cannot be loaded, no task is reached; the
\* process ends with status 1 when a path was given and the arguments do not
\* ask for the usage text, and with status 0 (after the usage text) when no
\* path was given or the usage text was asked for.
C9_ConfigFailure ==
    CannotLoad
        => /\ NoTaskDispatched
           /\ pc = "exit"
                 => exitStatus = IF taskFile = "" \/ UsageRequested(args)
                                  THEN 0 ELSE 1

C9_Witness == pc = "exit" /\ fileState = "badYaml" /\ exitStatus = 1

\* C10: the error flag is read and the exit status chosen only after the
\* pass has ended and every started goroutine has ended: then no task is
\* pending or running and every failure is recorded in errorOccurred.
C10_JoinBeforeAggregate ==
    (pc = "aggregate" \/ (pc = "exit" /\ Loaded /\ exitStatus \in {0, 1}))
        => /\ \A i \in Positions : g[i] = NoGoroutine
           /\ wg = 0 /\ moduleSyncChan = 0 /\ task = NoTask
           /\ \A i \in 1..Len(hist) : hist[i].status \in Completed \cup {"Skipped"}
           /\ AnyFailed => errorOccurred

C10_Witness ==
    /\ pc = "aggregate"
    /\ \E i \in 1..Len(hist) : hist[i].parallel /\ hist[i].status = "Failure"

\* C11: a skip is permanent.  A task whose dependency check failed stays
\* Skipped in every later step, is never the task of the inline runTask and
\* never has a goroutine, whatever taskCompleted comes to hold afterwards.
NeverRuns(i) ==
    /\ hist[i].status = "Skipped"
    /\ g[i] = NoGoroutine
    /\ i = Len(hist) => (task = NoTask /\ frame = <<>> /\ pc \in {"loop", "wait", "aggregate", "exit"})

C11_SkipPermanent ==
    [][\A i \in 1..Len(hist) :
          (hist[i].status = "Skipped" \/ hist'[i].status = "Skipped")
              => NeverRuns(i)']_vars

C11_Witness ==
    /\ Len(hist) = 2 /\ hist[1].parallel /\ hist[1].status \in Completed
    /\ hist[2].status = "Skipped" /\ ~hist[2].orphan
    /\ hist[2].name # hist[1].name
    /\ taskCompleted[hist[1].name]
    /\ pc = "aggregate"

\* C12: a task failure aborts nothing.  Once some task has failed (and while
\* the process is alive), the pass still takes the next declared task,
\* evaluates its check, and starts it when the check passed (a parallel one
\* when the slot is free); the inline task and every goroutine that have
\* commands left can execute their next command.
C12_FailureContained ==
    (exitStatus = NotExited /\ AnyFailed)
        => /\ (pc = "loop" /\ Len(hist) < MaxTasks) => ENABLED NextTask
           /\ pc = "check" => ENABLED CheckBegin
           /\ pc = "checking" => ENABLED CheckEnd
           /\ (pc = "dispatch" /\ ~task.parallel) => ENABLED SeqStart
           /\ (pc = "dispatch" /\ task.parallel /\ moduleSyncChan < Capacity)
                 => ENABLED Acquire
           /\ pc = "spawn" => ENABLED Spawn
           /\ (pc = "runTask" /\ Len(frame) < Len(task.cmds) /\ ~HasError(frame))
                 => ENABLED SeqExec
           /\ \A i \in Positions :
                 (g[i].pc = "runTask" /\ Len(g[i].log) < Len(g[i].cmds)
                  /\ ~HasError(g[i].log))
                     => ENABLED GExec(i)

C12_Witness ==
    /\ Len(hist) = 2 /\ hist[1].parallel /\ hist[1].status = "Failure"
    /\ errorOccurred /\ taskCompleted[hist[1].name]
    /\ hist[2].status = "Running" /\ ~hist[2].orphan
    /\ hist[2].name # hist[1].name
    /\ pc = "runTask" /\ Len(frame) = 1 /\ Len(task.cmds) = MaxCmds
    /\ task.required = <<hist[1].name>>

\* C13: sequential tasks run in declaration order, one at a time.  A
\* sequential task that has started is, while it runs, the last task the pass
\* has reached and the one inside the inline runTask; every sequential task
\* declared before a started sequential task has ended or was skipped, and
\* every parallel task declared before it was dispatched (its goroutine was
\* started) or skipped.
Started(i) == hist[i].status \in {"Running"} \cup Completed

Terminal(i) == hist[i].status \in Completed \cup {"Skipped"}

C13_SequentialOrder ==
    /\ \A i \in 1..Len(hist) :
          (~hist[i].parallel /\ Started(i))
              => /\ hist[i].status = "Running"
                    => (i = Len(hist) /\ pc = "runTask" /\ task.name = hist[i].name)
                 /\ \A j \in 1..(i - 1) :
                       IF hist[j].parallel
                       THEN Started(j) \/ hist[j].status = "Skipped"
                       ELSE Terminal(j)
    /\ Cardinality({i \in 1..Len(hist) :
                        ~hist[i].parallel /\ hist[i].status = "Running"}) <= 1

C13_Witness ==
    /\ Len(hist) = 2 /\ ~hist[1].parallel /\ ~hist[2].parallel
    /\ hist[1].status = "Success" /\ hist[2].status = "Running"
    /\ pc = "runTask" /\ Len(frame) = 1

\* The steps of the main goroutine (the control thread) inside runAllTasks.
ControlStep ==
    \/ NextTask \/ EndLoop \/ CheckBegin \/ CheckEnd \/ Acquire \/ Spawn
    \/ SeqStart \/ SeqExec \/ SeqReturn \/ SeqMarkBegin \/ SeqMarkEnd
    \/ Wait \/ Aggregate

InPass == pc \in {"loop", "check", "checking", "dispatch", "spawn", "runTask",
                  "mark", "marking", "wait", "aggregate"}

Blocked == Running /\ InPass /\ ~ENABLED ControlStep

HoldsSlot(i) == g[i].pc \in {"runTask", "lock", "mark", "marking", "release"}

\* C14 as stated: the control thread is never held up by a parallel task
\* except in the final join (wg.Wait).
C14_Original == Blocked => pc = "wait"

\* C14, amended: the control thread is held up by a parallel task in two
\* places only: in the final join, while a goroutine has not ended, and at
\* the acquisition of the slot for a parallel task, while the goroutine of an
\* earlier parallel task holds the slot.  Everywhere else it can step while
\* goroutines run: starting a goroutine is never held up, and the dispatched
\* task is then running while the pass is back at the loop.
C14_DispatchDoesNotWait ==
    /\ Blocked
          => \/ pc = "wait" /\ wg > 0 /\ \E i \in Positions : g[i] # NoGoroutine
             \/ /\ pc = "dispatch" /\ task.parallel /\ moduleSyncChan = Capacity
                /\ \E i \in 1..(Len(hist) - 1) : hist[i].parallel /\ HoldsSlot(i)
    /\ pc = "spawn" => (task.parallel /\ ENABLED Spawn)

C14_Witness ==
    /\ Len(hist) = 2 /\ hist[1].parallel /\ hist[1].status = "Running"
    /\ g[1].pc = "runTask" /\ g[1].log = <<>> /\ Len(g[1].cmds) > 0
    /\ ~hist[2].parallel /\ hist[2].status \in Completed
    /\ taskCompleted[hist[2].name] /\ pc = "loop"

\* C15 as stated: in every state the number of held slots is the number of
\* parallel units dispatched and not yet finished, whether a unit is taken
\* to be a started goroutine that has not ended or a parallel task that is
\* Running.
RunningParallel == {i \in 1..Len(hist) : hist[i].parallel /\ hist[i].status = "Running"}

LiveGoroutines == {i \in Positions : g[i] # NoGoroutine}

C15_Original ==
    \/ moduleSyncChan = Cardinality(LiveGoroutines)
    \/ moduleSyncChan = Cardinality(RunningParallel)

\* C15, amended: the slot count changes by one at a time; it goes up only at
\* the acquisition for a parallel task whose check passed, before the
\* goroutine starts, and down only in the deferred step of a goroutine whose
\* runTask has returned (success or failure) and whose completion is
\* recorded.  In every state the held slots are those of the goroutines
\* between their start and that deferred step, plus the one acquired for the
\* goroutine about to start; they are at most Capacity; a sequential or
\* skipped task holds none; after the final join none is held.
SlotHolders == {i \in Positions : HoldsSlot(i)}

SlotInvariant ==
    /\ moduleSyncChan = Cardinality(SlotHolders) + (IF pc = "spawn" THEN 1 ELSE 0)
    /\ moduleSyncChan \in 0..Capacity
    /\ pc = "spawn" => (task.parallel /\ hist[Len(hist)].status = "Pending")
    /\ \A i \in SlotHolders :
          i <= Len(hist) /\ hist[i].parallel /\ Started(i)
    /\ (pc = "aggregate" \/ (pc = "exit" /\ Loaded /\ exitStatus \in {0, 1}))
          => moduleSyncChan = 0

C15_SlotAccounting ==
    [][/\ moduleSyncChan' > moduleSyncChan
          => /\ moduleSyncChan' = moduleSyncChan + 1
             /\ pc = "dispatch" /\ pc' = "spawn" /\ task.parallel
             /\ hist[Len(hist)].status = "Pending"
       /\ moduleSyncChan' < moduleSyncChan
          => /\ moduleSyncChan' = moduleSyncChan - 1
             /\ \E i \in Positions :
                   /\ g[i].pc = "release" /\ g'[i].pc = "wgDone"
                   /\ hist[i].parallel /\ hist[i].status \in Completed
                   /\ taskCompleted[hist[i].name]
       /\ \A i \in Positions :
             (g[i].pc = "release" /\ g'[i] # g[i]) => moduleSyncChan' < moduleSyncChan
       /\ SlotInvariant']_vars

C15_Witness ==
    /\ Len(hist) = 2 /\ hist[1].parallel /\ hist[2].parallel
    /\ hist[1].status = "Failure" /\ g[1].pc = "wgDone"
    /\ pc = "spawn" /\ moduleSyncChan = 1

\* C16: taskCompleted starts with no true entry, and an entry that is true
\* stays true in every later state: no step removes or resets one.
C16_Monotonic ==
    /\ \A n \in Names : ~taskCompleted[n]
    /\ [][\A n \in Names : taskCompleted[n] => taskCompleted'[n]]_vars

C16_Witness ==
    /\ Len(hist) = 2 /\ hist[1].parallel /\ ~hist[2].parallel
    /\ hist[1].name # hist[2].name
    /\ taskCompleted[hist[1].name] /\ taskCompleted[hist[2].name]
    /\ \E n \in Names : ~taskCompleted[n]
    /\ pc = "exit" /\ exitStatus = 1

SomeCompleted(n) ==
    \E i \in 1..Len(hist) : hist[i].name = n /\ hist[i].status \in Completed

C18_Original == \A n \in Names : taskCompleted[n] <=> SomeCompleted(n)

\* C18, amended: a task is Pending when the pass reaches it and its status
\* changes only Pending -> Skipped, Pending -> Running and Running ->
\* Success | Failure.  taskCompleted[n] is true only if a task named n has
\* reached Success or Failure (a skip never sets it), and it is set after the
\* task reached that outcome, not with it: a Completed task whose name is not
\* recorded is one whose runTask has returned and whose write is still to
\* come (or was cut off by the abort of the process).
StatusStep(old, new) ==
    \/ new = old
    \/ old = "Pending" /\ new \in {"Skipped", "Running"}
    \/ old = "Running" /\ new \in Completed

WritePending(i) ==
    \/ /\ i = Len(hist) /\ ~hist[i].parallel
       /\ pc \in {"mark", "marking"} \/ (pc = "exit" /\ exitStatus = 2)
    \/ hist[i].parallel /\ g[i].pc \in {"lock", "mark", "marking"}

Recorded ==
    /\ \A n \in Names : taskCompleted[n] => SomeCompleted(n)
    /\ \A i \in 1..Len(hist) :
          hist[i].status \in Completed
              => (taskCompleted[hist[i].name] \/ WritePending(i))

C18_TaskStates ==
    [][/\ \A i \in 1..Len(hist) : StatusStep(hist[i].status, hist'[i].status)
       /\ \A i \in (Len(hist) + 1)..Len(hist') : hist'[i].status = "Pending"
       /\ Len(hist') >= Len(hist)
       /\ Recorded']_vars

C18_Witness ==
    /\ Len(hist) = 2 /\ hist[1].parallel /\ hist[1].status = "Success"
    /\ g[1].pc = "mark" /\ ~taskCompleted[hist[1].name]
    /\ hist[2].status = "Pending" /\ hist[2].name # hist[1].name
    /\ pc = "checking" /\ task.required = <<hist[1].name>>

\* C19: under fair scheduling every run ends, and a run that entered
\* runAllTasks ends by emitting its final status: the pass has reached the
\* end of the task list, the join has returned, and the process exits with
\* status 0 or 1.
C19_Terminates == <>(pc = "exit" /\ (Loaded => exitStatus \in {0, 1}))

\* C20: replacePlaceholders is deterministic.  The string handed to the
\* shell is the one every visiting order of the variables gives for the
\* command and the environment.
RECURSIVE ReplaceInOrder(_, _, _)
ReplaceInOrder(s, ks, env) ==
    IF ks = <<>> THEN s
    ELSE ReplaceInOrder(ReplaceAll(s, Placeholder(Head(ks)), env[Head(ks)]),
                        Tail(ks), env)

KeyOrders(env) ==
    {o \in [1..Cardinality(DOMAIN env) -> DOMAIN env] :
        \A i, j \in DOMAIN o : o[i] = o[j] => i = j}

Results(s, env) == {ReplaceInOrder(s, o, env) : o \in KeyOrders(env)}

C20_Deterministic == spc = "exec" => Results(origCmd, variables) = {cmdStr}

====
